---- MODULE Spec2Model ----
(***************************************************************************)
(* CompleteGraph (src/src/complete_graph.rs): the shortest-path closure of *)
(* a skeleton graph, computed on demand by Dijkstra's algorithm with a     *)
(* fast-clear timestamp.  One engine is constructed from an edge list and  *)
(* then serves any sequence of all_edges, all_edges_with_terminate and     *)
(* get_path calls.  The loops of a call are modelled one iteration per     *)
(* step (specification Spec; SpecRange also gives the calls indices that   *)
(* are out of range).                                                      *)
(*                                                                         *)
(* The example codes (src/src/example.rs): create_code of the four code    *)
(* types followed by sanity_check (specification SpecCode), and            *)
(* ExampleCodeParallel, whose generate_random_errors runs one closure per  *)
(* replica on a pool of worker threads (specification SpecParallel);       *)
(* ErrorPatternReader, which replays the syndrome patterns of a file       *)
(* (specification SpecReader); and the calls of the ExampleCode trait that *)
(* put syndromes and erasures on a built code (specification               *)
(* SpecSyndrome).                                                          *)
(***************************************************************************)
EXTENDS Integers, Sequences, FiniteSets, TLC

\* ---------------------------------------------------------------- bounds

\* number of vertices of the enumerated skeleton graphs
NumVertices == 3
\* largest edge weight of the enumerated skeleton graphs
MaxWeight == 1
\* longest enumerated edge list
MaxEdges == 3
\* FastClearTimestamp::MAX (usize::MAX), scaled down so that the clock wraps
FastClearTimestampMAX == 2
\* VertexIndex::MAX (usize::MAX): larger than every vertex index
VertexIndexMAX == 65535

\* ------------------------------------------------------------- BTreeMap

\* BTreeMap::new()
EmptyMap == <<>>

\* BTreeMap::insert: a second insert of the same key overwrites the first
MapInsert(m, k, v) == [x \in (DOMAIN m) \cup {k} |-> IF x = k THEN v ELSE m[x]]

\* the map without key k
MapRemove(m, k) == [x \in (DOMAIN m) \ {k} |-> m[x]]

\* the keys of a set of naturals in ascending order (BTreeMap iteration order)
RECURSIVE SortedKeys(_)
SortedKeys(S) ==
    IF S = {} THEN <<>>
    ELSE LET lo == CHOOSE x \in S : \A y \in S : x <= y
         IN  <<lo>> \o SortedKeys(S \ {lo})

\* ---------------------------------------------------------- construction

\* CompleteGraphVertex { edges: BTreeMap::new(), timestamp: 0 }
CompleteGraphVertex == [edges |-> EmptyMap, timestamp |-> 0]

\* the index `vertices[i]`, `vertices[j]` of lines 31-32 with the first endpoint
\* checked only
EndpointsInRange_first_only(n, weighted_edges) ==
    \A k \in 1..Len(weighted_edges) : weighted_edges[k][1] < n

\* lines 30-33: `vertices[i]` and `vertices[j]` index a Vec of n vertices, which
\* panics for an index >= n; TRUE when no edge of the list panics
EndpointsInRange(n, weighted_edges) ==
    \A k \in 1..Len(weighted_edges) :
        weighted_edges[k][1] < n /\ weighted_edges[k][2] < n

\* the for loop with line 32 left out: the edge is inserted at i only
RECURSIVE InsertEdges_one_direction(_, _, _)
InsertEdges_one_direction(vs, weighted_edges, k) ==
    IF k > Len(weighted_edges) THEN vs
    ELSE LET i == weighted_edges[k][1]
             j == weighted_edges[k][2]
             weight == weighted_edges[k][3]
             v1 == [vs EXCEPT ![i].edges = MapInsert(@, j, weight)]
         IN  InsertEdges_one_direction(v1, weighted_edges, k + 1)

\* the for loop of CompleteGraph::new from the k-th listed edge on
RECURSIVE InsertEdges(_, _, _)
InsertEdges(vs, weighted_edges, k) ==
    IF k > Len(weighted_edges) THEN vs
    ELSE LET i == weighted_edges[k][1]
             j == weighted_edges[k][2]
             weight == weighted_edges[k][3]
             v1 == [vs EXCEPT ![i].edges = MapInsert(@, j, weight)]
             v2 == [v1 EXCEPT ![j].edges = MapInsert(@, i, weight)]
         IN  InsertEdges(v2, weighted_edges, k + 1)

\* CompleteGraph::new: the vertices of the engine
new(n, weighted_edges) ==
    InsertEdges([i \in 0..(n - 1) |-> CompleteGraphVertex], weighted_edges, 1)

\* ------------------------------------------------ the skeleton graphs

\* every (i, j, weight) over NumVertices vertices, self-loops and both
\* orientations included
Triples == {<<i, j, w>> : i \in 0..(NumVertices - 1), j \in 0..(NumVertices - 1),
                          w \in 0..MaxWeight}

RECURSIVE SeqsUpTo(_, _)
SeqsUpTo(S, n) ==
    IF n = 0 THEN {<<>>}
    ELSE LET shorter == SeqsUpTo(S, n - 1)
         IN  shorter \cup {Append(s, x) : s \in {t \in shorter : Len(t) = n - 1}, x \in S}

\* the enumerated edge lists, of at most n edges
EdgeLists(n) == SeqsUpTo(Triples, n)

\* a 4-cycle of zero-weight edges and one edge of weight 7 leaving it
ZeroCycleEdges == <<<<0, 1, 0>>, <<1, 2, 0>>, <<2, 3, 0>>, <<3, 0, 0>>, <<0, 4, 7>>>>

\* a direct edge of weight 10 beside a detour of weight 5, then one more edge
DetourEdges == <<<<0, 1, 10>>, <<1, 2, 10>>, <<0, 2, 5>>, <<2, 3, 1>>>>

\* edges with one endpoint equal to the number of vertices
OutOfRangeTriples == {<<NumVertices, 0, 0>>, <<0, NumVertices, 1>>}

\* edge lists of at most n edges that hold an out-of-range edge, first or last
OutOfRangeEdgeLists(n) ==
    {Append(l, x) : l \in SeqsUpTo(Triples, n - 1), x \in OutOfRangeTriples}
    \cup {<<x>> \o l : l \in SeqsUpTo(Triples, n - 1), x \in OutOfRangeTriples}

\* the arguments of CompleteGraph::new an engine is constructed from, the
\* enumerated edge lists being of at most n edges
Constructions(n) ==
    {[vertex_num |-> NumVertices, weighted_edges |-> l] :
        l \in EdgeLists(n) \cup OutOfRangeEdgeLists(n)}
    \cup {[vertex_num |-> 5, weighted_edges |-> ZeroCycleEdges],
          [vertex_num |-> 4, weighted_edges |-> DetourEdges]}

\* ------------------------------------------------------------ the state

VARIABLES
    vertex_num,        \* CompleteGraph.vertex_num
    vertices,          \* CompleteGraph.vertices: index -> [edges, timestamp]
    active_timestamp,  \* CompleteGraph.active_timestamp
    pq_order,          \* the order in which the PriorityQueue pops equal priorities
    construction,      \* the arguments of CompleteGraph::new, kept until the
                       \* first call on the engine
    pc,                \* "idle", "loop" (all_edges_with_terminate), "walk"
                       \* (get_path), "failed" (CompleteGraph::new panicked)
    op,                \* the public call in progress
    vertex,            \* all_edges_with_terminate: the source (get_path: a)
    terminate,         \* all_edges_with_terminate: the target (get_path: b)
    pq,                \* the frontier: key -> PriorityElement
    computed_edges,    \* { peer: (previous, weight) }
    popped,            \* the targets popped by this traversal, in order
    wrapped,           \* whether this traversal's invalidation reset the clock
    walk_vertex,       \* get_path: the local `vertex` of the backward walk
    path,              \* get_path: the path built so far, destination first
    ret,               \* what the last completed call returned, or how it failed
    prev_full,         \* the Result Map of the call before, when that call was
                       \* all_edges from the source of this call; else NoMap
    code_args,         \* example code: the code type and the arguments of create_code
    code,              \* example code: [vertices, edges] of the code built
    code_pc,           \* "start", "created", "checked", "failed" (create_code
                       \* panicked), "none" (no example code)
    code_check,        \* what sanity_check returned
    codes,             \* ExampleCodeParallel.codes: index -> [lock, generated]
    syndrome_patterns, \* ExampleCodeParallel.syndrome_patterns
    code_index,        \* ExampleCodeParallel.code_index
    par_pc,            \* "idle", "batch" (the parallel iterator runs), "none"
    par_seed,          \* the seed of the call that started the last batch
    workers,           \* the worker threads: [state, code_index, pattern]
    batch,             \* the batch: index -> [handlers, done, pattern]
    par_ret,           \* what the last call of generate_random_errors returned
    is_erasure,        \* example code: edge index -> CodeEdge.is_erasure
    syndrome_ret,      \* what the last call on the example code returned
    reader,            \* ErrorPatternReader: [syndrome_patterns, syndrome_index]
    reader_file,       \* the syndrome patterns of the file, in file order
    reader_calls,      \* the calls of generate_random_errors made on the reader
    reader_ret         \* what the last of them returned, or that it failed

complete_graph_vars ==
    <<vertex_num, vertices, active_timestamp, pq_order, construction, pc,
      op, vertex, terminate, pq, computed_edges, popped, wrapped,
      walk_vertex, path, ret, prev_full>>

example_code_vars == <<code_args, code, code_pc, code_check>>

parallel_vars == <<codes, syndrome_patterns, code_index, par_pc, par_seed,
                   workers, batch, par_ret>>

scenario_vars == <<is_erasure, syndrome_ret, reader, reader_file, reader_calls,
                   reader_ret>>

vars == <<complete_graph_vars, example_code_vars, parallel_vars, scenario_vars>>

engine == <<vertex_num, vertices, active_timestamp>>

\* the arguments of CompleteGraph::new, while they are kept
Constructed(n, weighted_edges) ==
    [held |-> TRUE, vertex_num |-> n, weighted_edges |-> weighted_edges]

\* the arguments are no longer kept
NoConstruction == [held |-> FALSE, vertex_num |-> 0, weighted_edges |-> <<>>]

\* no Result Map kept
NoMap == [valid |-> FALSE, map |-> EmptyMap]

\* the record of a completed call
Returned(o, a, b, status, map, p, total, iterations) ==
    [op |-> o, a |-> a, b |-> b, status |-> status, map |-> map, path |-> p,
     total |-> total, iterations |-> iterations]

NoReturn == Returned("none", 0, 0, "none", EmptyMap, <<>>, 0, 0)

\* ----------------------------------------------------- PriorityQueue

\* PriorityElement::new
PriorityElement(weight, previous) == [weight |-> weight, previous |-> previous]

\* the orders in which a queue may pop entries of equal priority: the
\* PriorityElement order compares weights only, so the queue is free to pick
\* any of them, and picks the same one whenever it is used the same way
PopOrders(n) ==
    {SortedKeys(0..(n - 1)),
     [i \in 1..n |-> n - i],
     [i \in 1..n |-> (i + (n \div 2) - 1) % n]}

\* cmp without the reversal: the larger weight is the greater priority
cmp_unreversed(self, other) ==
    IF self.weight < other.weight THEN "Less"
    ELSE IF self.weight = other.weight THEN "Equal"
    ELSE "Greater"

\* PriorityElement::cmp: other.weight.cmp(&self.weight), reversed so that the
\* smaller weight is the greater priority
cmp(self, other) ==
    IF other.weight < self.weight THEN "Less"
    ELSE IF other.weight = self.weight THEN "Equal"
    ELSE "Greater"

\* PriorityQueue::pop: the key of a greatest priority, the first in `order`
\* among equals; a key that `order` does not list (an out-of-range source,
\* which is alone in the queue) is popped as it is
PopKey(pqv, order) ==
    LET greatest == {k \in DOMAIN pqv :
                        \A k2 \in DOMAIN pqv : cmp(pqv[k], pqv[k2]) # "Less"}
        listed == {i \in 1..Len(order) : order[i] \in greatest}
        first == CHOOSE i \in listed : \A j \in listed : i <= j
    IN  IF listed = {} THEN CHOOSE k \in greatest : TRUE
                       ELSE order[first]

\* ------------------------------------------------------ the traversal

\* invalidate_previous_dijkstra with the increment in an else branch: a wrap
\* leaves the clock at 0
invalidate_wrap_to_zero(at, vs) ==
    IF at = FastClearTimestampMAX
    THEN [active_timestamp |-> 0,
          vertices |-> [i \in DOMAIN vs |-> [vs[i] EXCEPT !.timestamp = 0]]]
    ELSE [active_timestamp |-> at + 1, vertices |-> vs]

\* invalidate_previous_dijkstra without the refresh of lines 44-46
invalidate_without_refresh(at, vs) ==
    [active_timestamp |-> (IF at = FastClearTimestampMAX THEN 0 ELSE at) + 1,
     vertices |-> vs]

\* invalidate_previous_dijkstra without the `+= 1` of line 48
invalidate_without_advance(at, vs) ==
    IF at = FastClearTimestampMAX
    THEN [active_timestamp |-> 0,
          vertices |-> [i \in DOMAIN vs |-> [vs[i] EXCEPT !.timestamp = 0]]]
    ELSE [active_timestamp |-> at, vertices |-> vs]

\* invalidate_previous_dijkstra with the refresh of lines 44-46 made on every
\* call
invalidate_always_refresh(at, vs) ==
    [active_timestamp |-> (IF at = FastClearTimestampMAX THEN 0 ELSE at) + 1,
     vertices |-> [i \in DOMAIN vs |-> [vs[i] EXCEPT !.timestamp = 0]]]

\* invalidate_previous_dijkstra: the clock and the vertices after the call;
\* the value returned is the new active_timestamp
invalidate_previous_dijkstra(at, vs) ==
    LET wrap == (at = FastClearTimestampMAX)
        at0 == IF wrap THEN 0 ELSE at
        vs0 == IF wrap THEN [i \in DOMAIN vs |-> [vs[i] EXCEPT !.timestamp = 0]]
                       ELSE vs
    IN  [active_timestamp |-> at0 + 1, vertices |-> vs0]

\* |x - y| on unsigned indices
AbsDiff(x, y) == IF x > y THEN x - y ELSE y - x

\* Update with the strict improvement left out: an entry is replaced on ties only
Update_ties_only(edge_weight, existing, neighbor, target, previous) ==
    LET distance == AbsDiff(neighbor, previous)
        existing_distance == AbsDiff(neighbor, existing.previous)
    IN  /\ edge_weight = existing.weight
        /\ \/ distance < existing_distance
           \/ (distance = existing_distance /\ previous < existing.previous)

\* whether the frontier entry of `neighbor` is replaced by the candidate of
\* weight edge_weight offered by the popped `target`, itself reached from
\* `previous` (lines 81-89)
Update(edge_weight, existing, neighbor, target, previous) ==
    LET existing_weight == existing.weight
        existing_previous == existing.previous
        distance == AbsDiff(neighbor, previous)
        existing_distance == AbsDiff(neighbor, existing_previous)
    IN  \/ edge_weight < existing_weight
        \/ /\ edge_weight = existing_weight
           /\ \/ distance < existing_distance
              \/ (distance = existing_distance /\ previous < existing_previous)

\* Relax with `previous` stored where lines 91 and 95 store `target`
Relax_storing_previous(pqv, vs, at, target, weight, previous, neighbor) ==
    LET edge_weight == weight + vs[target].edges[neighbor]
    IN  IF neighbor \in DOMAIN pqv
        THEN IF Update(edge_weight, pqv[neighbor], neighbor, target, previous)
             THEN MapInsert(pqv, neighbor, PriorityElement(edge_weight, previous))
             ELSE pqv
        ELSE IF vs[neighbor].timestamp # at
             THEN MapInsert(pqv, neighbor, PriorityElement(edge_weight, previous))
             ELSE pqv

\* Relax without the visited check of line 94
Relax_unvisited_unchecked(pqv, vs, at, target, weight, previous, neighbor) ==
    LET edge_weight == weight + vs[target].edges[neighbor]
    IN  IF neighbor \in DOMAIN pqv
        THEN IF Update(edge_weight, pqv[neighbor], neighbor, target, previous)
             THEN MapInsert(pqv, neighbor, PriorityElement(edge_weight, target))
             ELSE pqv
        ELSE MapInsert(pqv, neighbor, PriorityElement(edge_weight, target))

\* one pass of the body of `for (&neighbor, &neighbor_weight) in ...edges.iter()`
Relax(pqv, vs, at, target, weight, previous, neighbor) ==
    LET neighbor_weight == vs[target].edges[neighbor]
        edge_weight == weight + neighbor_weight
    IN  IF neighbor \in DOMAIN pqv
        THEN IF Update(edge_weight, pqv[neighbor], neighbor, target, previous)
             THEN MapInsert(pqv, neighbor, PriorityElement(edge_weight, target))
             ELSE pqv
        ELSE IF vs[neighbor].timestamp # at
             THEN MapInsert(pqv, neighbor, PriorityElement(edge_weight, target))
             ELSE pqv

\* the for loop over the neighbors of target, from the k-th key on
RECURSIVE RelaxFrom(_, _, _, _, _, _, _, _)
RelaxFrom(pqv, vs, at, target, weight, previous, keys, k) ==
    IF k > Len(keys) THEN pqv
    ELSE RelaxFrom(Relax(pqv, vs, at, target, weight, previous, keys[k]),
                   vs, at, target, weight, previous, keys, k + 1)

\* line 68 left out: the popped target is not marked as visited
Stamp_omitted(vs, target, at) == vs

\* line 68 storing a new vertex where it marks the stored one
Stamp_replacing_vertex(vs, target, at) ==
    [vs EXCEPT ![target] = [CompleteGraphVertex EXCEPT !.timestamp = at]]

\* `self.vertices[target].timestamp = active_timestamp` (line 68)
Stamp(vs, target, at) == [vs EXCEPT ![target].timestamp = at]

\* one iteration of the main loop with a non-empty frontier (lines 62-98);
\* `indexed` is FALSE when `self.vertices[target]` of line 68 panics, and the
\* iteration ends there
Iteration(vs, at, pqv, ce, order, source, term) ==
    LET target == PopKey(pqv, order)
        weight == pqv[target].weight
        previous == pqv[target].previous
        pq1 == MapRemove(pqv, target)
        indexed == target \in DOMAIN vs
        vs1 == IF indexed THEN Stamp(vs, target, at) ELSE vs
        ce1 == IF indexed /\ target # source
               THEN MapInsert(ce, target, <<previous, weight>>)
               ELSE ce
        early == (indexed /\ target # source /\ target = term)
        pq2 == IF early \/ ~indexed THEN pq1
               ELSE RelaxFrom(pq1, vs1, at, target, weight, previous,
                              SortedKeys(DOMAIN vs1[target].edges), 1)
    IN  [target |-> target, asserted |-> (target \notin DOMAIN ce),
         indexed |-> indexed, vertices |-> vs1, pq |-> pq2,
         computed_edges |-> ce1, early |-> early]

\* ------------------------------------------------------------- Init

\* no example code is built
NoExampleCode ==
    /\ code_args = [kind |-> "none", d |-> 0, noisy_measurements |-> 0]
    /\ code = [vertices |-> <<>>, edges |-> <<>>]
    /\ code_pc = "none"
    /\ code_check = "none"

\* no ExampleCodeParallel exists
NoExampleCodeParallel ==
    /\ codes = <<>>
    /\ syndrome_patterns = <<>>
    /\ code_index = 0
    /\ par_pc = "none"
    /\ par_seed = 0
    /\ workers = <<>>
    /\ batch = <<>>
    /\ par_ret = <<>>

\* no SyndromePattern: no call has returned one
NoSyndromePattern == [syndrome_vertices |-> <<-1>>, erasures |-> <<-1>>]

\* no call is made on the example code
NoSyndrome ==
    /\ is_erasure = <<>>
    /\ syndrome_ret = [op |-> "none", pattern |-> NoSyndromePattern]

\* no ErrorPatternReader exists
NoErrorPatternReader ==
    /\ reader = [syndrome_patterns |-> <<>>, syndrome_index |-> 0]
    /\ reader_file = <<>>
    /\ reader_calls = 0
    /\ reader_ret = [status |-> "none", seed |-> 0, pattern |-> NoSyndromePattern]

\* no CompleteGraph exists
NoCompleteGraph ==
    /\ vertex_num = 0
    /\ vertices = <<>>
    /\ active_timestamp = 0
    /\ pq_order = <<>>
    /\ construction = NoConstruction
    /\ pc = "none"
    /\ op = "none"
    /\ vertex = 0
    /\ terminate = 0
    /\ pq = EmptyMap
    /\ computed_edges = EmptyMap
    /\ popped = <<>>
    /\ wrapped = FALSE
    /\ walk_vertex = 0
    /\ path = <<>>
    /\ ret = NoReturn
    /\ prev_full = NoMap

\* the engine after CompleteGraph::new(vertex_num, weighted_edges), no call
\* yet; when new panicked there is no engine, and no call follows
Init ==
    /\ \E c \in Constructions(MaxEdges) :
           /\ construction = Constructed(c.vertex_num, c.weighted_edges)
           /\ IF EndpointsInRange(c.vertex_num, c.weighted_edges)
              THEN /\ vertex_num = c.vertex_num
                   /\ vertices = new(c.vertex_num, c.weighted_edges)
                   /\ pc = "idle"
              ELSE /\ vertex_num = 0
                   /\ vertices = <<>>
                   /\ pc = "failed"
    /\ active_timestamp = 0
    /\ pq_order \in PopOrders(vertex_num)
    /\ op = "none"
    /\ vertex = 0
    /\ terminate = 0
    /\ pq = EmptyMap
    /\ computed_edges = EmptyMap
    /\ popped = <<>>
    /\ wrapped = FALSE
    /\ walk_vertex = 0
    /\ path = <<>>
    /\ ret = NoReturn
    /\ prev_full = NoMap
    /\ NoExampleCode
    /\ NoExampleCodeParallel
    /\ NoSyndrome
    /\ NoErrorPatternReader

\* ----------------------------------------------------------- actions

\* lines 54-57: invalidate, then a frontier holding the source only
Enter(o, source, term) ==
    LET inv == invalidate_previous_dijkstra(active_timestamp, vertices)
    IN  /\ active_timestamp' = inv.active_timestamp
        /\ vertices' = inv.vertices
        /\ wrapped' = (active_timestamp = FastClearTimestampMAX)
        /\ pq' = MapInsert(EmptyMap, source, PriorityElement(0, source))
        /\ computed_edges' = EmptyMap
        /\ popped' = <<>>
        /\ op' = o
        /\ vertex' = source
        /\ terminate' = term
        /\ pc' = "loop"
        /\ prev_full' = IF ret.op = "all_edges" /\ ret.status = "ok" /\ ret.a = source
                        THEN [valid |-> TRUE, map |-> ret.map]
                        ELSE NoMap
        /\ ret' = NoReturn
        /\ construction' = NoConstruction
        /\ UNCHANGED <<vertex_num, pq_order, walk_vertex, path>>

\* a call that ends: its locals are dropped and `r` is what the caller gets
Leave(r) ==
    /\ ret' = r
    /\ pc' = "idle"
    /\ op' = "none"
    /\ vertex' = 0
    /\ terminate' = 0
    /\ pq' = EmptyMap
    /\ computed_edges' = EmptyMap
    /\ popped' = <<>>
    /\ walk_vertex' = 0
    /\ path' = <<>>

\* all_edges_with_terminate returns `edges` (line 101): to the caller, or to
\* get_path, which starts its backward walk at b (lines 112-115)
Return(edges, iterations) ==
    IF op = "get_path"
    THEN /\ pc' = "walk"
         /\ computed_edges' = edges
         /\ pq' = EmptyMap
         /\ walk_vertex' = terminate
         /\ path' = <<>>
         /\ popped' = <<>>
         /\ UNCHANGED <<op, vertex, terminate, ret>>
    ELSE Leave(Returned(op, vertex, terminate, "ok", edges, <<>>, 0, iterations))

\* all_edges(vertex)
all_edges(source) ==
    /\ pc = "idle"
    /\ Enter("all_edges", source, VertexIndexMAX)
    /\ UNCHANGED <<example_code_vars, parallel_vars, scenario_vars>>

\* all_edges_with_terminate(vertex, terminate)
all_edges_with_terminate(source, term) ==
    /\ pc = "idle"
    /\ Enter("all_edges_with_terminate", source, term)
    /\ UNCHANGED <<example_code_vars, parallel_vars, scenario_vars>>

\* get_path without the assert_ne of line 111
get_path_unasserted(a, b) ==
    /\ pc = "idle"
    /\ Enter("get_path", a, b)
    /\ UNCHANGED <<example_code_vars, parallel_vars, scenario_vars>>

\* get_path(a, b) up to its call of all_edges_with_terminate
get_path(a, b) ==
    /\ pc = "idle"
    /\ IF a = b
       THEN /\ Leave(Returned("get_path", a, b, "invalid_argument", EmptyMap, <<>>, 0, 0))
            /\ prev_full' = NoMap
            /\ construction' = NoConstruction
            /\ UNCHANGED <<engine, pq_order, wrapped>>
       ELSE Enter("get_path", a, b)
    /\ UNCHANGED <<example_code_vars, parallel_vars, scenario_vars>>

\* `if pq.len() == 0 { break }`, then the return
LoopBreak ==
    /\ pc = "loop"
    /\ DOMAIN pq = {}
    /\ Return(computed_edges, Len(popped))
    /\ UNCHANGED <<engine, pq_order, construction, wrapped, prev_full>>
    /\ UNCHANGED <<example_code_vars, parallel_vars, scenario_vars>>

\* one iteration of the main loop: pop, stamp, record, relax; a popped target
\* that already has an entry fails the debug_assert of lines 64-66, which
\* panics before the target is stamped, and a popped target that is not an
\* index of `vertices` panics at line 68
LoopIteration ==
    /\ pc = "loop"
    /\ DOMAIN pq # {}
    /\ LET it == Iteration(vertices, active_timestamp, pq, computed_edges,
                           pq_order, vertex, terminate)
       IN  IF ~it.asserted
           THEN /\ Leave(Returned(op, vertex, terminate, "assertion_failed",
                                  EmptyMap, <<>>, 0, Len(popped) + 1))
                /\ UNCHANGED vertices
           ELSE IF ~it.indexed
           THEN /\ Leave(Returned(op, vertex, terminate, "invalid_index",
                                  EmptyMap, <<>>, 0, Len(popped) + 1))
                /\ UNCHANGED vertices
           ELSE /\ vertices' = it.vertices
                /\ IF it.early
                   THEN Return(it.computed_edges, Len(popped) + 1)
                   ELSE /\ pq' = it.pq
                        /\ computed_edges' = it.computed_edges
                        /\ popped' = Append(popped, it.target)
                        /\ UNCHANGED <<pc, op, vertex, terminate, walk_vertex, path, ret>>
    /\ UNCHANGED <<vertex_num, active_timestamp, pq_order, construction, wrapped,
                   prev_full>>
    /\ UNCHANGED <<example_code_vars, parallel_vars, scenario_vars>>

\* Vec::reverse left out
Reverse_omitted(s) == s

\* Vec::reverse
RECURSIVE Reverse(_)
Reverse(s) == IF s = <<>> THEN <<>> ELSE Append(Reverse(Tail(s)), Head(s))

\* Index that yields the source with weight 0 for a missing key
Index_or_default(edges, key) ==
    [found |-> TRUE,
     value |-> IF key \in DOMAIN edges THEN edges[key] ELSE <<vertex, 0>>]

\* Index for BTreeMap (`edges[&key]`): the value, or a panic when the key is
\* missing
Index(edges, key) ==
    IF key \in DOMAIN edges THEN [found |-> TRUE, value |-> edges[key]]
                            ELSE [found |-> FALSE, value |-> <<0, 0>>]

\* PathPush without the subtraction of line 124
PathPush_cumulative(p, v, weight) == Append(p, <<v, weight>>)

\* lines 121-125: push (vertex, weight), then take weight off the entry pushed
\* before, which held its vertex's cumulative weight
PathPush(p, v, weight) ==
    LET pushed == Append(p, <<v, weight>>)
        previous_index == Len(pushed) - 1
    IN  IF Len(pushed) > 1
        THEN [pushed EXCEPT ![previous_index][2] = @ - weight]
        ELSE pushed

\* one iteration of the loop of get_path (lines 116-127), or its exit
\* (lines 128-129)
WalkStep ==
    /\ pc = "walk"
    /\ IF walk_vertex = vertex
       THEN LET last == Index(computed_edges, terminate)
            IN  IF last.found
                THEN Leave(Returned("get_path", vertex, terminate, "ok", EmptyMap,
                                    Reverse(path), last.value[2], 0))
                ELSE Leave(Returned("get_path", vertex, terminate, "missing_key",
                                    EmptyMap, <<>>, 0, 0))
       ELSE LET entry == Index(computed_edges, walk_vertex)
                previous == entry.value[1]
                weight == entry.value[2]
            IN  IF ~entry.found
                THEN Leave(Returned("get_path", vertex, terminate, "missing_key",
                                    EmptyMap, <<>>, 0, 0))
                ELSE /\ path' = PathPush(path, walk_vertex, weight)
                     /\ walk_vertex' = previous
                     /\ UNCHANGED <<pc, op, vertex, terminate, pq, computed_edges,
                                    popped, ret>>
    /\ UNCHANGED <<engine, pq_order, construction, wrapped, prev_full>>
    /\ UNCHANGED <<example_code_vars, parallel_vars, scenario_vars>>

\* ------------------------------------------------------ specification

\* calls within the engine's vertex indices
Next ==
    \/ \E source \in 0..(vertex_num - 1) : all_edges(source)
    \/ \E source \in 0..(vertex_num - 1), term \in 0..(vertex_num - 1) :
           all_edges_with_terminate(source, term)
    \/ \E a \in 0..(vertex_num - 1), b \in 0..(vertex_num - 1) : get_path(a, b)
    \/ LoopBreak
    \/ LoopIteration
    \/ WalkStep

Spec == Init /\ [][Next]_vars

\* the vertex indices a call may be given: those of the engine, and
\* vertex_num, which is out of range
Arguments == 0..vertex_num

\* calls with any index, in range or not
NextRange ==
    \/ \E source \in Arguments : all_edges(source)
    \/ \E source \in Arguments, term \in Arguments :
           all_edges_with_terminate(source, term)
    \/ \E a \in Arguments, b \in Arguments : get_path(a, b)
    \/ LoopBreak
    \/ LoopIteration
    \/ WalkStep

SpecRange == Init /\ [][NextRange]_vars

\* ------------------------------------------------------- example codes

\* the largest code distance asked of create_code
MaxD == 7

\* the largest number of noisy measurement rounds asked of create_code
MaxNoisyMeasurements == 2

\* CodeEdge::new(a, b): the incident vertices; the probabilities, the weight
\* and the erasure flag, which sanity_check does not read, are left out
CodeEdge(a, b) == <<a, b>>

\* the Vecs of a sequence of Vecs, pushed one after the other
RECURSIVE Concat(_)
Concat(ss) == IF ss = <<>> THEN <<>> ELSE Head(ss) \o Concat(Tail(ss))

\* the edges of one row without `edges.push(CodeEdge::new(bias, bias + d))`
RowEdges_without_leftmost(d, bias, row) ==
    LET row_vertex_num == (d - 1) + 2
    IN  [i \in 1..(d - 1) |-> CodeEdge(bias + (i - 1), bias + (i - 1) + 1)]
        \o (IF row + 1 < d
            THEN [i \in 1..(d - 1) |->
                     CodeEdge(bias + (i - 1), bias + (i - 1) + row_vertex_num)]
            ELSE <<>>)

\* the edges pushed for one row of a planar code, `bias` being the index of
\* the row's first vertex: the row's own edges, its left-most edge, and the
\* edges to the next row when there is one (the loop variable i of the code
\* is i - 1 here)
RowEdges(d, bias, row) ==
    LET row_vertex_num == (d - 1) + 2
    IN  [i \in 1..(d - 1) |-> CodeEdge(bias + (i - 1), bias + (i - 1) + 1)]
        \o <<CodeEdge(bias, bias + d)>>
        \o (IF row + 1 < d
            THEN [i \in 1..(d - 1) |->
                     CodeEdge(bias + (i - 1), bias + (i - 1) + row_vertex_num)]
            ELSE <<>>)

\* `for row in 0..d`: the edges of the d rows of the layer that starts at t_bias
LayerEdges(d, t_bias) ==
    LET row_vertex_num == (d - 1) + 2
    IN  Concat([r \in 1..d |-> RowEdges(d, t_bias + (r - 1) * row_vertex_num, r - 1)])

\* PhenomenologicalPlanarCode: the inter-layer connection from the layer that
\* starts at t_bias to the next one
InterLayerEdges(d, t_bias) ==
    LET row_vertex_num == (d - 1) + 2
        t_vertex_num == row_vertex_num * d
    IN  Concat([r \in 1..d |->
                   LET bias == t_bias + (r - 1) * row_vertex_num
                   IN  [i \in 1..(d - 1) |->
                           CodeEdge(bias + (i - 1), bias + (i - 1) + t_vertex_num)]])

\* vec![(0, 1), (1, 0), (1, 1)]
diagonal_diffs == <<<<0, 1>>, <<1, 0>>, <<1, 1>>>>

\* CircuitLevelPlanarCode: the diagonal edges pushed for vertex i of `row`
DiagonalEdges(d, t_bias, row, i) ==
    LET row_vertex_num == (d - 1) + 2
        t_vertex_num == row_vertex_num * d
        bias == t_bias + row * row_vertex_num
        InRange(diff) == /\ row + diff[1] >= 0
                         /\ i + diff[2] >= 0
                         /\ row + diff[1] < d
                         /\ i + diff[2] < d - 1
        kept == SelectSeq(diagonal_diffs, InRange)
    IN  [k \in 1..Len(kept) |->
            LET new_row == row + kept[k][1]
                new_i == i + kept[k][2]
                new_bias == t_bias + new_row * row_vertex_num + t_vertex_num
            IN  CodeEdge(bias + i, new_bias + new_i)]

\* CircuitLevelPlanarCode: the inter-layer connection, each straight edge
\* followed by the diagonal edges of its vertex
CircuitInterLayerEdges(d, t_bias) ==
    LET row_vertex_num == (d - 1) + 2
        t_vertex_num == row_vertex_num * d
    IN  Concat([r \in 1..d |->
                   LET bias == t_bias + (r - 1) * row_vertex_num
                   IN  Concat([i \in 1..(d - 1) |->
                                  <<CodeEdge(bias + (i - 1), bias + (i - 1) + t_vertex_num)>>
                                  \o DiagonalEdges(d, t_bias, r - 1, i - 1)])])

\* the (vertex, edge index) pairs in the order fill_vertices pushes them
Pushes(edges) ==
    [j \in 1..(2 * Len(edges)) |->
        <<edges[(j + 1) \div 2][((j + 1) % 2) + 1], (j - 1) \div 2>>]

\* CodeVertex as fill_vertices pushes it (the position left out)
CodeVertex == [neighbor_edges |-> <<>>, is_virtual |-> FALSE, is_syndrome |-> FALSE]

\* fill_vertices(vertex_num): vertex_num fresh vertices, then every edge index
\* pushed on the neighbor_edges of both its vertices
fill_vertices(code_vertex_num, edges) ==
    [v \in 0..(code_vertex_num - 1) |->
        LET IsAt(x) == x[1] = v
            mine == SelectSeq(Pushes(edges), IsAt)
        IN  [CodeVertex EXCEPT !.neighbor_edges = [k \in 1..Len(mine) |-> mine[k][2]]]]

\* `code.vertices[bias + d - 1].is_virtual = true` and the same for bias + d,
\* for the row that starts at each bias
SetVirtual(vs, d, biases) ==
    [v \in DOMAIN vs |->
        IF \E bias \in biases : v = bias + d - 1 \/ v = bias + d
        THEN [vs[v] EXCEPT !.is_virtual = TRUE]
        ELSE vs[v]]

\* the first vertex index of every row of `td` layers of a planar code
RowBiases(d, td) ==
    LET row_vertex_num == (d - 1) + 2
        t_vertex_num == row_vertex_num * d
    IN  {t * t_vertex_num + row * row_vertex_num : t \in 0..(td - 1), row \in 0..(d - 1)}

\* CodeCapacityRepetitionCode::create_code(d), after its assert
CodeCapacityRepetitionCode(d) ==
    LET code_vertex_num == (d - 1) + 2
        edges == [i \in 1..(d - 1) |-> CodeEdge(i - 1, (i - 1) + 1)]
                 \o <<CodeEdge(0, d)>>
    IN  [vertices |-> SetVirtual(fill_vertices(code_vertex_num, edges), d, {0}),
         edges |-> edges]

\* CodeCapacityPlanarCode::create_code(d), after its assert
CodeCapacityPlanarCode(d) ==
    LET row_vertex_num == (d - 1) + 2
        code_vertex_num == row_vertex_num * d
        edges == LayerEdges(d, 0)
    IN  [vertices |-> SetVirtual(fill_vertices(code_vertex_num, edges), d, RowBiases(d, 1)),
         edges |-> edges]

\* PhenomenologicalPlanarCode::create_code(d, noisy_measurements), after its
\* assert
PhenomenologicalPlanarCode(d, noisy_measurements) ==
    LET row_vertex_num == (d - 1) + 2
        t_vertex_num == row_vertex_num * d
        td == noisy_measurements + 1
        code_vertex_num == t_vertex_num * td
        edges == Concat([t1 \in 1..td |->
                            LET t == t1 - 1
                                t_bias == t * t_vertex_num
                            IN  LayerEdges(d, t_bias)
                                \o (IF t + 1 < td THEN InterLayerEdges(d, t_bias)
                                                  ELSE <<>>)])
    IN  [vertices |-> SetVirtual(fill_vertices(code_vertex_num, edges), d, RowBiases(d, td)),
         edges |-> edges]

\* CircuitLevelPlanarCode::create_code(d, noisy_measurements), after its assert
CircuitLevelPlanarCode(d, noisy_measurements) ==
    LET row_vertex_num == (d - 1) + 2
        t_vertex_num == row_vertex_num * d
        td == noisy_measurements + 1
        code_vertex_num == t_vertex_num * td
        edges == Concat([t1 \in 1..td |->
                            LET t == t1 - 1
                                t_bias == t * t_vertex_num
                            IN  LayerEdges(d, t_bias)
                                \o (IF t + 1 < td THEN CircuitInterLayerEdges(d, t_bias)
                                                  ELSE <<>>)])
    IN  [vertices |-> SetVirtual(fill_vertices(code_vertex_num, edges), d, RowBiases(d, td)),
         edges |-> edges]

\* create_code of the code type args.kind
create_code(args) ==
    CASE args.kind = "CodeCapacityRepetitionCode" -> CodeCapacityRepetitionCode(args.d)
      [] args.kind = "CodeCapacityPlanarCode" -> CodeCapacityPlanarCode(args.d)
      [] args.kind = "PhenomenologicalPlanarCode" ->
             PhenomenologicalPlanarCode(args.d, args.noisy_measurements)
      [] args.kind = "CircuitLevelPlanarCode" ->
             CircuitLevelPlanarCode(args.d, args.noisy_measurements)

\* the elements of a sequence
Range(s) == {s[k] : k \in 1..Len(s)}

\* ExampleCode::sanity_check: "Ok", or the kind of the Err that the first
\* failing check returns
sanity_check(c) ==
    LET unique_edge(idx) == IF c.edges[idx][1] < c.edges[idx][2]
                            THEN <<c.edges[idx][1], c.edges[idx][2]>>
                            ELSE <<c.edges[idx][2], c.edges[idx][1]>>
        existing_edges == {unique_edge(idx) : idx \in 1..Len(c.edges)}
        Failing(v) ==
            \/ c.vertices[v].neighbor_edges = <<>>
            \/ Cardinality(Range(c.vertices[v].neighbor_edges))
                   # Len(c.vertices[v].neighbor_edges)
        failing == {v \in DOMAIN c.vertices : Failing(v)}
        vertex_idx == CHOOSE v \in failing : \A u \in failing : v <= u
    IN  IF DOMAIN c.vertices = {} \/ c.edges = <<>> THEN "empty graph"
        ELSE IF Cardinality(existing_edges) # Len(c.edges) THEN "duplicate edge"
        ELSE IF failing = {} THEN "Ok"
        ELSE IF c.vertices[vertex_idx].neighbor_edges = <<>>
             THEN "vertex without neighbor edges"
        ELSE "duplicate referred edge"

\* the code types and the arguments create_code is called with
CodeArguments ==
    {[kind |-> k, d |-> d, noisy_measurements |-> 0] :
        k \in {"CodeCapacityRepetitionCode", "CodeCapacityPlanarCode"}, d \in 1..MaxD}
    \cup {[kind |-> k, d |-> d, noisy_measurements |-> n] :
             k \in {"PhenomenologicalPlanarCode", "CircuitLevelPlanarCode"},
             d \in 1..MaxD, n \in 0..MaxNoisyMeasurements}

\* a call of create_code is about to be made
InitCode ==
    /\ code_args \in CodeArguments
    /\ code = [vertices |-> <<>>, edges |-> <<>>]
    /\ code_pc = "start"
    /\ code_check = "none"
    /\ NoCompleteGraph
    /\ NoExampleCodeParallel
    /\ NoSyndrome
    /\ NoErrorPatternReader

\* create_code: `assert!(d >= 3 && d % 2 == 1)`, then the code is built
CreateCode ==
    /\ code_pc = "start"
    /\ IF code_args.d >= 3 /\ code_args.d % 2 = 1
       THEN /\ code' = create_code(code_args)
            /\ code_pc' = "created"
       ELSE /\ code_pc' = "failed"
            /\ UNCHANGED code
    /\ UNCHANGED <<code_args, code_check>>
    /\ UNCHANGED <<complete_graph_vars, parallel_vars, scenario_vars>>

\* sanity_check() on the code built
SanityCheck ==
    /\ code_pc = "created"
    /\ code_check' = sanity_check(code)
    /\ code_pc' = "checked"
    /\ UNCHANGED <<code_args, code>>
    /\ UNCHANGED <<complete_graph_vars, parallel_vars, scenario_vars>>

NextCode ==
    \/ CreateCode
    \/ SanityCheck

SpecCode == InitCode /\ [][NextCode]_vars

\* --------------------------------------------------- ExampleCodeParallel

\* the largest code_count given to ExampleCodeParallel::new
MaxCodes == 2

\* the worker threads of the thread pool
NumWorkers == 2

\* the largest seed given to generate_random_errors
MaxSeed == 1

\* the distance between the seeds of neighboring replicas
SeedStride == 1000000000

\* the worker threads
Workers == 1..NumWorkers

\* the seed of a replica without the `code_index * 1_000_000_000`
ReplicaSeed_unstrided(seed, index) == seed

\* `seed + (code_index * 1_000_000_000) as u64`
ReplicaSeed(seed, index) == seed + index * SeedStride

\* the SyndromePattern that ExampleCode::generate_random_errors(seed) returns
\* on a replica: what its generator, seeded with `seed`, draws on that
\* replica; the pattern is named by the replica that ran and the seed it
\* was given
SyndromePattern(replica, seed) == [replica |-> replica, seed |-> seed]

\* no SyndromePattern
NoPattern == [replica |-> -1, seed |-> -1]

\* a worker thread that runs no closure
IdleWorker == [state |-> "idle", code_index |-> 0, pattern |-> NoPattern]

\* an item of the parallel iterator that no worker has taken
FreshItem == [handlers |-> <<>>, done |-> FALSE, pattern |-> NoPattern]

\* ExampleCodeParallel::new(example, code_count): code_count unlocked clones,
\* no patterns, code_index 0
InitParallel ==
    /\ \E code_count \in 0..MaxCodes :
           /\ codes = [i \in 0..(code_count - 1) |-> [lock |-> 0, generated |-> NoPattern]]
           /\ batch = [i \in 0..(code_count - 1) |-> FreshItem]
    /\ syndrome_patterns = <<>>
    /\ code_index = 0
    /\ par_pc = "idle"
    /\ par_seed = 0
    /\ workers = [w \in Workers |-> IdleWorker]
    /\ par_ret = [called |-> FALSE, code_index |-> 0, pattern |-> NoPattern]
    /\ NoCompleteGraph
    /\ NoExampleCode
    /\ NoSyndrome
    /\ NoErrorPatternReader

\* lines 798-800: the pattern at code_index is returned and code_index advances
ReturnPattern(patterns) ==
    /\ par_ret' = [called |-> TRUE, code_index |-> code_index,
                   pattern |-> patterns[code_index]]
    /\ code_index' = (code_index + 1) % Cardinality(DOMAIN codes)

\* generate_random_errors(seed): with code_index 0 the parallel iterator over
\* 0..codes.len() starts; otherwise the stored pattern is returned
generate_random_errors(seed) ==
    /\ par_pc = "idle"
    /\ IF code_index = 0
       THEN /\ par_pc' = "batch"
            /\ par_seed' = seed
            /\ batch' = [i \in DOMAIN codes |-> FreshItem]
            /\ UNCHANGED <<code_index, par_ret>>
       ELSE /\ ReturnPattern(syndrome_patterns)
            /\ UNCHANGED <<par_pc, par_seed, batch>>
    /\ UNCHANGED <<codes, syndrome_patterns, workers>>
    /\ UNCHANGED <<complete_graph_vars, example_code_vars, scenario_vars>>

\* into_par_iter().map(..): an idle worker thread takes an item that no
\* thread has taken and calls the closure on it, which asks for the write
\* lock of codes[i]
Take(w, i) ==
    /\ par_pc = "batch"
    /\ workers[w].state = "idle"
    /\ batch[i].handlers = <<>>
    /\ batch' = [batch EXCEPT ![i].handlers = Append(@, w)]
    /\ workers' = [workers EXCEPT ![w] = [state |-> "waiting", code_index |-> i,
                                          pattern |-> NoPattern]]
    /\ UNCHANGED <<codes, syndrome_patterns, code_index, par_pc, par_seed, par_ret>>
    /\ UNCHANGED <<complete_graph_vars, example_code_vars, scenario_vars>>

\* codes[code_index].write(): granted when no thread holds the lock
Acquire(w) ==
    /\ workers[w].state = "waiting"
    /\ codes[workers[w].code_index].lock = 0
    /\ codes' = [codes EXCEPT ![workers[w].code_index].lock = w]
    /\ workers' = [workers EXCEPT ![w].state = "holding"]
    /\ UNCHANGED <<syndrome_patterns, code_index, par_pc, par_seed, batch, par_ret>>
    /\ UNCHANGED <<complete_graph_vars, example_code_vars, scenario_vars>>

\* .generate_random_errors(seed + (code_index * 1_000_000_000) as u64) on the
\* locked replica
Generate(w) ==
    /\ workers[w].state = "holding"
    /\ LET i == workers[w].code_index
           pattern == SyndromePattern(i, ReplicaSeed(par_seed, i))
       IN  /\ codes' = [codes EXCEPT ![i].generated = pattern]
           /\ workers' = [workers EXCEPT ![w].state = "generated",
                                         ![w].pattern = pattern]
    /\ UNCHANGED <<syndrome_patterns, code_index, par_pc, par_seed, batch, par_ret>>
    /\ UNCHANGED <<complete_graph_vars, example_code_vars, scenario_vars>>

\* the closure returns: the write guard is dropped and the pattern is the
\* result of item i
Release(w) ==
    /\ workers[w].state = "generated"
    /\ LET i == workers[w].code_index
       IN  /\ codes' = [codes EXCEPT ![i].lock = 0]
           /\ batch' = [batch EXCEPT ![i].done = TRUE, ![i].pattern = workers[w].pattern]
    /\ workers' = [workers EXCEPT ![w] = IdleWorker]
    /\ UNCHANGED <<syndrome_patterns, code_index, par_pc, par_seed, par_ret>>
    /\ UNCHANGED <<complete_graph_vars, example_code_vars, scenario_vars>>

\* collect_into_vec(&mut self.syndrome_patterns) once every item is done: the
\* result of item i is element i; then lines 798-800, where
\* syndrome_patterns[0] panics when there is no replica
Collect ==
    /\ par_pc = "batch"
    /\ \A i \in DOMAIN batch : batch[i].done
    /\ syndrome_patterns' = [i \in DOMAIN batch |-> batch[i].pattern]
    /\ IF DOMAIN codes = {}
       THEN /\ par_pc' = "failed"
            /\ UNCHANGED <<code_index, par_ret>>
       ELSE /\ par_pc' = "idle"
            /\ ReturnPattern(syndrome_patterns')
    /\ UNCHANGED <<codes, par_seed, workers, batch>>
    /\ UNCHANGED <<complete_graph_vars, example_code_vars, scenario_vars>>

NextParallel ==
    \/ \E seed \in 0..MaxSeed : generate_random_errors(seed)
    \/ \E w \in Workers, i \in DOMAIN batch : Take(w, i)
    \/ \E w \in Workers : Acquire(w)
    \/ \E w \in Workers : Generate(w)
    \/ \E w \in Workers : Release(w)
    \/ Collect

SpecParallel == InitParallel /\ [][NextParallel]_vars

\* ---------------------------------------------------- ErrorPatternReader

\* the largest number of syndrome patterns in the file
MaxPatterns == 3

\* the largest number of calls of generate_random_errors made on one reader
MaxCalls == 5

\* SyndromePattern::new(syndrome_vertices, erasures)
SyndromePattern_new(syndrome_vertices, erasures) ==
    [syndrome_vertices |-> syndrome_vertices, erasures |-> erasures]

\* the syndrome patterns that a line of the file holds
FilePatterns ==
    {SyndromePattern_new(<<>>, <<>>),
     SyndromePattern_new(<<0>>, <<>>),
     SyndromePattern_new(<<0, 1>>, <<0>>)}

\* generate_random_errors without `self.syndrome_index += 1`
ReadPattern_without_advance(self, seed) ==
    IF self.syndrome_index < Len(self.syndrome_patterns)
    THEN [asserted |-> TRUE,
          pattern |-> self.syndrome_patterns[self.syndrome_index + 1],
          self |-> self]
    ELSE [asserted |-> FALSE, pattern |-> NoSyndromePattern, self |-> self]

\* ErrorPatternReader::generate_random_errors(_seed): the assert of line 689,
\* then the pattern at syndrome_index is cloned and syndrome_index advances
\* (syndrome_index counts from 0, the sequence from 1)
ReadPattern(self, seed) ==
    IF self.syndrome_index < Len(self.syndrome_patterns)
    THEN [asserted |-> TRUE,
          pattern |-> self.syndrome_patterns[self.syndrome_index + 1],
          self |-> [self EXCEPT !.syndrome_index = @ + 1]]
    ELSE [asserted |-> FALSE, pattern |-> NoSyndromePattern, self |-> self]

\* ErrorPatternReader::new: the patterns of the file in file order,
\* syndrome_index 0
InitReader ==
    /\ reader_file \in SeqsUpTo(FilePatterns, MaxPatterns)
    /\ reader = [syndrome_patterns |-> reader_file, syndrome_index |-> 0]
    /\ reader_calls = 0
    /\ reader_ret = [status |-> "none", seed |-> 0, pattern |-> NoSyndromePattern]
    /\ NoSyndrome
    /\ NoCompleteGraph
    /\ NoExampleCode
    /\ NoExampleCodeParallel

\* a call of generate_random_errors(seed) on the reader: it returns a pattern
\* or panics at the assert
ErrorPatternReader_generate_random_errors(seed) ==
    /\ reader_calls < MaxCalls
    /\ LET r == ReadPattern(reader, seed)
       IN  /\ reader' = r.self
           /\ reader_ret' = [status |-> IF r.asserted THEN "ok" ELSE "failed",
                             seed |-> seed,
                             pattern |-> r.pattern]
    /\ reader_calls' = reader_calls + 1
    /\ UNCHANGED <<reader_file, is_erasure, syndrome_ret>>
    /\ UNCHANGED <<complete_graph_vars, example_code_vars, parallel_vars>>

NextReader ==
    \E seed \in 0..MaxSeed : ErrorPatternReader_generate_random_errors(seed)

SpecReader == InitReader /\ [][NextReader]_vars

\* ------------------------------------------ syndromes of an example code

\* the largest code distance of the codes that errors are put on
MaxSyndromeD == 3

\* the longest list of vertices given to set_syndrome_vertices
MaxSyndromeVertices == 2

\* the longest list of edges given to set_erasures
MaxErasures == 1

\* set_syndrome_vertices(syndrome_vertices): every is_syndrome is cleared,
\* then set for each vertex of the list
set_syndrome_vertices(vs, syndrome_vertices) ==
    [v \in DOMAIN vs |->
        [vs[v] EXCEPT !.is_syndrome = (v \in Range(syndrome_vertices))]]

\* set_erasures(erasures): every is_erasure is cleared, then set for each
\* edge of the list
set_erasures(flags, erasures) ==
    [e \in DOMAIN flags |-> e \in Range(erasures)]

\* get_syndrome_vertices(): the vertices with is_syndrome, in index order
get_syndrome_vertices(vs) ==
    SortedKeys({v \in DOMAIN vs : vs[v].is_syndrome})

\* get_erasures(): the edges with is_erasure, in index order
get_erasures(flags) ==
    SortedKeys({e \in DOMAIN flags : flags[e]})

\* get_syndrome()
get_syndrome(vs, flags) ==
    SyndromePattern_new(get_syndrome_vertices(vs), get_erasures(flags))

\* lines 277-285: an error on edge `edge` flips is_syndrome of each of its two
\* vertices that is not virtual, one after the other
Flip(vs, edge) ==
    LET v1 == edge[1]
        v2 == edge[2]
        vs1 == IF ~vs[v1].is_virtual
               THEN [vs EXCEPT ![v1].is_syndrome = ~@]
               ELSE vs
    IN  IF ~vs1[v2].is_virtual
        THEN [vs1 EXCEPT ![v2].is_syndrome = ~@]
        ELSE vs1

\* `for edge in edges.iter_mut()` from edge k on (k counts from 1), `errors`
\* being the edge indices where `rng.next_f64() < p` comes out true
RECURSIVE FlipEdges(_, _, _, _)
FlipEdges(vs, edges, errors, k) ==
    IF k > Len(edges) THEN vs
    ELSE FlipEdges(IF (k - 1) \in errors THEN Flip(vs, edges[k]) ELSE vs,
                   edges, errors, k + 1)

\* ExampleCode::generate_random_errors: every is_syndrome is cleared, each
\* edge is erased or not and has an error or not as the generator draws, and
\* get_syndrome() is returned
RandomErrors(c, erased, errors) ==
    LET cleared == [v \in DOMAIN c.vertices |->
                       [c.vertices[v] EXCEPT !.is_syndrome = FALSE]]
        vs == FlipEdges(cleared, c.edges, errors, 1)
        flags == [e \in 0..(Len(c.edges) - 1) |-> e \in erased]
    IN  [vertices |-> vs, is_erasure |-> flags, pattern |-> get_syndrome(vs, flags)]

\* the codes that errors are put on
SyndromeCodeArguments ==
    {[kind |-> "CodeCapacityRepetitionCode", d |-> d, noisy_measurements |-> 0] :
        d \in {x \in 3..MaxSyndromeD : x % 2 = 1}}

\* a code as create_code built it: no syndrome, no erasure
InitSyndrome ==
    /\ code_args \in SyndromeCodeArguments
    /\ code = create_code(code_args)
    /\ code_pc = "created"
    /\ code_check = "none"
    /\ is_erasure = [e \in 0..(Len(code.edges) - 1) |-> FALSE]
    /\ syndrome_ret = [op |-> "none", pattern |-> NoSyndromePattern]
    /\ NoErrorPatternReader
    /\ NoCompleteGraph
    /\ NoExampleCodeParallel

\* generate_random_errors(seed): the generator seeded with `seed` erases the
\* edges of `erased` and puts an error on the edges of `errors`
GenerateRandomErrors(erased, errors) ==
    /\ code_pc = "created"
    /\ LET r == RandomErrors(code, erased, errors)
       IN  /\ code' = [code EXCEPT !.vertices = r.vertices]
           /\ is_erasure' = r.is_erasure
           /\ syndrome_ret' = [op |-> "generate_random_errors", pattern |-> r.pattern]
    /\ UNCHANGED <<code_args, code_pc, code_check>>
    /\ UNCHANGED <<reader, reader_file, reader_calls, reader_ret>>
    /\ UNCHANGED <<complete_graph_vars, parallel_vars>>

\* set_syndrome_vertices(syndrome_vertices)
SetSyndromeVertices(syndrome_vertices) ==
    /\ code_pc = "created"
    /\ code' = [code EXCEPT !.vertices = set_syndrome_vertices(@, syndrome_vertices)]
    /\ syndrome_ret' = [op |-> "set_syndrome_vertices", pattern |-> NoSyndromePattern]
    /\ UNCHANGED <<code_args, code_pc, code_check, is_erasure>>
    /\ UNCHANGED <<reader, reader_file, reader_calls, reader_ret>>
    /\ UNCHANGED <<complete_graph_vars, parallel_vars>>

\* set_syndrome(syndrome_pattern): set_syndrome_vertices, then set_erasures
SetSyndrome(syndrome_pattern) ==
    /\ code_pc = "created"
    /\ code' = [code EXCEPT !.vertices =
                   set_syndrome_vertices(@, syndrome_pattern.syndrome_vertices)]
    /\ is_erasure' = set_erasures(is_erasure, syndrome_pattern.erasures)
    /\ syndrome_ret' = [op |-> "set_syndrome", pattern |-> NoSyndromePattern]
    /\ UNCHANGED <<code_args, code_pc, code_check>>
    /\ UNCHANGED <<reader, reader_file, reader_calls, reader_ret>>
    /\ UNCHANGED <<complete_graph_vars, parallel_vars>>

\* get_syndrome()
GetSyndrome ==
    /\ code_pc = "created"
    /\ syndrome_ret' = [op |-> "get_syndrome",
                        pattern |-> get_syndrome(code.vertices, is_erasure)]
    /\ UNCHANGED <<code_args, code, code_pc, code_check, is_erasure>>
    /\ UNCHANGED <<reader, reader_file, reader_calls, reader_ret>>
    /\ UNCHANGED <<complete_graph_vars, parallel_vars>>

\* the vertex lists and the edge lists that the calls are given
SyndromeVertexLists == SeqsUpTo(DOMAIN code.vertices, MaxSyndromeVertices)

ErasureLists == SeqsUpTo(DOMAIN is_erasure, MaxErasures)

NextSyndrome ==
    \/ \E erased \in SUBSET (DOMAIN is_erasure), errors \in SUBSET (DOMAIN is_erasure) :
           GenerateRandomErrors(erased, errors)
    \/ \E syndrome_vertices \in SyndromeVertexLists :
           SetSyndromeVertices(syndrome_vertices)
    \/ \E syndrome_vertices \in SyndromeVertexLists, erasures \in ErasureLists :
           SetSyndrome(SyndromePattern_new(syndrome_vertices, erasures))
    \/ GetSyndrome

SpecSyndrome == InitSyndrome /\ [][NextSyndrome]_vars

\* ------------------------------------------------------------ claims

\* the vertex indices of the engine
Vertex == 0..(vertex_num - 1)

\* the smallest element of a non-empty set of integers
Min(S) == CHOOSE x \in S : \A y \in S : x <= y

\* one Bellman-Ford round over every stored edge; -1 stands for "not reached"
BellmanFordRound(d) ==
    [v \in Vertex |->
        LET via == {d[u] + vertices[u].edges[v] :
                        u \in {x \in Vertex : d[x] >= 0 /\ v \in DOMAIN vertices[x].edges}}
            all == via \cup (IF d[v] >= 0 THEN {d[v]} ELSE {})
        IN  IF all = {} THEN -1 ELSE Min(all)]

RECURSIVE BellmanFordRounds(_, _)
BellmanFordRounds(d, k) ==
    IF k = 0 THEN d ELSE BellmanFordRounds(BellmanFordRound(d), k - 1)

\* the reference: shortest distances from s after vertex_num rounds
BellmanFord(s) ==
    BellmanFordRounds([v \in Vertex |-> IF v = s THEN 0 ELSE -1], vertex_num)

\* i and j are joined by a stored skeleton edge
Adjacent(i, j) == j \in DOMAIN vertices[i].edges

\* the engine was constructed from these arguments, or from others that
\* store the same edges
BuiltFrom(n, weighted_edges) ==
    /\ vertex_num = n
    /\ \A v \in Vertex : vertices[v].edges = new(n, weighted_edges)[v].edges

\* a call has returned a Result Map
ReturnedMap(o) == pc = "idle" /\ ret.op = o /\ ret.status = "ok"

\* C1: a full run all_edges(s) returns a Result Map whose keys are exactly the
\* vertices reachable from s other than s, each with its true shortest
\* distance from s as computed by Bellman-Ford.
C1_MatchesBellmanFord ==
    ReturnedMap("all_edges") =>
        LET d == BellmanFord(ret.a)
        IN  /\ DOMAIN ret.map = {v \in Vertex : d[v] >= 0} \ {ret.a}
            /\ \A v \in DOMAIN ret.map : ret.map[v][2] = d[v]

\* C1 witness: a full run that reached a vertex over two hops, on a graph
\* with a zero-weight edge and a self-loop
C1_Witness ==
    /\ ReturnedMap("all_edges")
    /\ \E v \in DOMAIN ret.map : ret.map[v][1] # ret.a
    /\ \E i \in Vertex : Adjacent(i, i)
    /\ \E i \in Vertex : \E j \in DOMAIN vertices[i].edges : vertices[i].edges[j] = 0

\* no element of the sequence occurs twice
NoRepeat(s) == \A i, j \in 1..Len(s) : i # j => s[i] # s[j]

\* C2: the main loop pops each vertex at most once and so runs at most
\* vertex_num iterations, every iteration that stays in the loop being one
\* more pop; on the zero-weight 4-cycle with the edge (0,4,7), all_edges(1)
\* returns and gives vertex 4 the weight 7.
C2_Terminates ==
    /\ [](/\ Len(popped) <= vertex_num
          /\ NoRepeat(popped)
          /\ (pc = "idle" => ret.iterations <= vertex_num)
          /\ (/\ pc = "idle"
              /\ BuiltFrom(5, ZeroCycleEdges)
              /\ ret.op = "all_edges"
              /\ ret.a = 1)
             => (/\ ret.status = "ok"
                 /\ 4 \in DOMAIN ret.map
                 /\ ret.map[4][2] = 7))
    /\ [][pc = "loop" /\ pc' = "loop" => Len(popped') = Len(popped) + 1]_vars

\* C2 witness: all_edges(1) has returned on the zero-weight 4-cycle, after
\* popping all five vertices
C2_Witness ==
    /\ ReturnedMap("all_edges")
    /\ BuiltFrom(5, ZeroCycleEdges)
    /\ ret.a = 1
    /\ ret.iterations = 5
    /\ ret.map[4][2] = 7

RECURSIVE SumWeights(_)
SumWeights(p) == IF p = <<>> THEN 0 ELSE Head(p)[2] + SumWeights(Tail(p))

\* get_path(a, b) has completed, returning or failing, with a # b and a a
\* vertex of the engine
PathCallDone ==
    pc = "idle" /\ ret.op = "get_path" /\ ret.a # ret.b /\ ret.a \in Vertex

\* b is a vertex that the stored edges connect to the vertex a
Reachable(a, b) == b \in Vertex /\ BellmanFord(a)[b] >= 0

\* C3: for a # b with b reachable from a, get_path(a, b) returns a non-empty
\* path whose last vertex is b and whose step weights sum to the total, and
\* the total is the weight a full run all_edges(a) records for b (the run made
\* just before, and the reference distance).
C3_PathTotal ==
    (PathCallDone /\ Reachable(ret.a, ret.b)) =>
        /\ ret.status = "ok"
        /\ Len(ret.path) > 0
        /\ ret.path[Len(ret.path)][1] = ret.b
        /\ SumWeights(ret.path) = ret.total
        /\ ret.total = BellmanFord(ret.a)[ret.b]
        /\ prev_full.valid =>
               /\ ret.b \in DOMAIN prev_full.map
               /\ ret.total = prev_full.map[ret.b][2]

\* C3 witness: get_path returned a path of two steps of non-zero weight right
\* after a full run from the same source
C3_Witness ==
    /\ PathCallDone
    /\ ret.status = "ok"
    /\ prev_full.valid
    /\ Len(ret.path) >= 2
    /\ \A i \in 1..Len(ret.path) : ret.path[i][2] > 0

\* the vertex before step i of a path from a
Before(a, p, i) == IF i = 1 THEN a ELSE p[i - 1][1]

\* C4: the path get_path(a, b) returns is a walk of the skeleton graph from a
\* to b: each step's vertex is adjacent to the vertex before it, the step's
\* weight is the stored weight of that edge, no vertex repeats; on the edges
\* (0,1,10),(1,2,10),(0,2,5),(2,3,1), get_path(0,3) is [(2,5),(3,1)], total 6.
C4_PathIsWalk ==
    (PathCallDone /\ Reachable(ret.a, ret.b)) =>
        /\ ret.status = "ok"
        /\ \A i \in 1..Len(ret.path) :
               /\ Adjacent(Before(ret.a, ret.path, i), ret.path[i][1])
               /\ ret.path[i][2] = vertices[Before(ret.a, ret.path, i)].edges[ret.path[i][1]]
               /\ ret.path[i][2] >= 0
               /\ ret.path[i][1] # ret.a
        /\ NoRepeat([i \in 1..Len(ret.path) |-> ret.path[i][1]])
        /\ (BuiltFrom(4, DetourEdges) /\ ret.a = 0 /\ ret.b = 3)
               => (ret.path = <<<<2, 5>>, <<3, 1>>>> /\ ret.total = 6)

\* C4 witness: get_path(0, 3) has returned on the detour graph
C4_Witness ==
    /\ PathCallDone
    /\ BuiltFrom(4, DetourEdges)
    /\ ret.a = 0
    /\ ret.b = 3
    /\ ret.path = <<<<2, 5>>, <<3, 1>>>>

\* the main loop of all_edges_with_terminate run to its end in one go
RECURSIVE RunLoop(_, _, _, _, _, _)
RunLoop(vs, at, pqv, ce, source, term) ==
    IF DOMAIN pqv = {} THEN ce
    ELSE LET it == Iteration(vs, at, pqv, ce, pq_order, source, term)
         IN  IF it.early THEN it.computed_edges
             ELSE RunLoop(it.vertices, at, it.pq, it.computed_edges, source, term)

\* what all_edges_with_terminate(source, term) returns as the first call on
\* an engine freshly constructed with the stored edges
FreshRun(source, term) ==
    LET fresh == [v \in Vertex |-> [vertices[v] EXCEPT !.timestamp = 0]]
        inv == invalidate_previous_dijkstra(0, fresh)
    IN  RunLoop(inv.vertices, inv.active_timestamp,
                MapInsert(EmptyMap, source, PriorityElement(0, source)),
                EmptyMap, source, term)

RetWeight(x) == IF x = ret.a THEN 0 ELSE ret.map[x][2]

C8_TieBreakByTarget ==
    [][(pc = "loop" /\ pc' = "loop") =>
          LET target == popped'[Len(popped')]
              weight == pq[target].weight
          IN  \A v \in ((DOMAIN vertices[target].edges) \cap (DOMAIN pq)) \ {target} :
                  LET candidate == weight + vertices[target].edges[v]
                      p2 == pq[v].previous
                  IN  candidate = pq[v].weight =>
                          ((pq'[v] = PriorityElement(candidate, target))
                           <=> \/ AbsDiff(v, target) < AbsDiff(v, p2)
                               \/ /\ AbsDiff(v, target) = AbsDiff(v, p2)
                                  /\ target < p2)]_vars

\* C9: get_path(a, a) fails as an invalid argument before any traversal
\* starts: no traversal of get_path ever has equal endpoints, and the failing
\* call, the only call that completes in one step, leaves the engine as it was.
C9_SameVertexFails ==
    /\ [](op = "get_path" => vertex # terminate)
    /\ []((pc = "idle" /\ ret.op = "get_path" /\ ret.a = ret.b)
          => (ret.status = "invalid_argument" /\ ret.path = <<>>))
    /\ [][(pc = "idle" /\ pc' = "idle")
            => (/\ ret'.op = "get_path"
                /\ ret'.a = ret'.b
                /\ ret'.status = "invalid_argument"
                /\ UNCHANGED engine)]_vars

\* C9 witness: get_path(a, a) has failed on an engine that served calls before
C9_Witness ==
    /\ pc = "idle"
    /\ ret.op = "get_path"
    /\ ret.a = ret.b
    /\ ret.status = "invalid_argument"
    /\ active_timestamp > 0

\* C10: for a # b with b not reachable from a, get_path(a, b) fails with a
\* missing key at the first step of its backward walk and returns no path.
C10_UnreachableFails ==
    /\ (PathCallDone /\ ~Reachable(ret.a, ret.b))
           => (ret.status = "missing_key" /\ ret.path = <<>>)
    /\ (pc = "walk" /\ ~Reachable(vertex, terminate))
           => (path = <<>> /\ walk_vertex = terminate)

\* C10 witness: get_path(a, b) has failed with a missing key although a has
\* a neighbor other than itself
C10_Witness ==
    /\ PathCallDone
    /\ ret.status = "missing_key"
    /\ \E v \in DOMAIN vertices[ret.a].edges : v # ret.a

\* a public call has completed, returning or failing
CallDone(o) == pc = "idle" /\ ret.op = o

\* the arguments kept in `construction` have an endpoint out of range
ConstructionOutOfRange ==
    \E k \in 1..Len(construction.weighted_edges) :
        \/ construction.weighted_edges[k][1] >= construction.vertex_num
        \/ construction.weighted_edges[k][2] >= construction.vertex_num

\* C11: an out-of-range vertex index always produces an invalid-index failure
\* and never a result: CompleteGraph::new fails whenever an edge has an
\* endpoint >= vertex_num, and each query fails with an invalid-index failure
\* whenever a vertex index argument it is given (source, terminate target or
\* path endpoint) is >= vertex_num.
C11_OutOfRangeAlwaysFails ==
    /\ (construction.held /\ ConstructionOutOfRange) => pc = "failed"
    /\ (CallDone("all_edges") /\ ret.a \notin Vertex) => ret.status = "invalid_index"
    /\ (/\ pc = "idle"
        /\ ret.op \in {"all_edges_with_terminate", "get_path"}
        /\ (ret.a \notin Vertex \/ ret.b \notin Vertex))
           => ret.status = "invalid_index"

\* C11 as the code has it: CompleteGraph::new fails exactly when an edge has
\* an endpoint out of range; a traversal from an out-of-range source fails
\* with an invalid index at its first pop and returns nothing; an
\* out-of-range terminate target alone does not fail, the traversal runs in
\* full and returns the full Result Map; get_path fails for an out-of-range
\* endpoint, as an invalid argument when a = b, with an invalid index when a
\* is out of range, and with a missing key when only b is.
C11_OutOfRangeSourceFails ==
    /\ construction.held => ((pc = "failed") <=> ConstructionOutOfRange)
    /\ pc \in {"loop", "walk"} => (vertex \in Vertex \/ (popped = <<>> /\ pc = "loop"))
    /\ (/\ pc = "idle"
        /\ ret.op \in {"all_edges", "all_edges_with_terminate"}
        /\ ret.a \notin Vertex)
           => (ret.status = "invalid_index" /\ ret.map = EmptyMap /\ ret.iterations = 1)
    /\ (/\ CallDone("all_edges_with_terminate")
        /\ ret.a \in Vertex
        /\ ret.b \notin Vertex)
           => LET d == BellmanFord(ret.a)
              IN  /\ ret.status = "ok"
                  /\ DOMAIN ret.map = {v \in Vertex : d[v] >= 0} \ {ret.a}
                  /\ \A v \in DOMAIN ret.map : ret.map[v][2] = d[v]
    /\ (CallDone("get_path") /\ (ret.a \notin Vertex \/ ret.b \notin Vertex))
           => /\ ret.path = <<>>
              /\ ret.status = IF ret.a = ret.b THEN "invalid_argument"
                              ELSE IF ret.a \notin Vertex THEN "invalid_index"
                              ELSE "missing_key"

\* C11 witness: all_edges_with_terminate with an out-of-range terminate target
\* has returned a Result Map of two entries
C11_Witness ==
    /\ CallDone("all_edges_with_terminate")
    /\ ret.a \in Vertex
    /\ ret.b \notin Vertex
    /\ ret.status = "ok"
    /\ Cardinality(DOMAIN ret.map) >= 2

\* the positions of the listed edges that join i and j, in either orientation
Joining(weighted_edges, i, j) ==
    {k \in 1..Len(weighted_edges) :
        \/ (weighted_edges[k][1] = i /\ weighted_edges[k][2] = j)
        \/ (weighted_edges[k][1] = j /\ weighted_edges[k][2] = i)}

\* the greatest element of a non-empty set of integers
Max(S) == CHOOSE x \in S : \A y \in S : x >= y

\* CompleteGraph::new has returned an engine, and no call was made on it yet
FreshEngine == construction.held /\ pc = "idle"

\* C12: after CompleteGraph::new(n, edges) with all endpoints in range, j is a
\* key of vertices[i].edges iff i is a key of vertices[j].edges iff some
\* listed edge joins i and j, both stored weights are the weight of the last
\* listed edge that joins them, and every timestamp and active_timestamp are 0.
C12_SymmetricLastWeight ==
    FreshEngine =>
        /\ vertex_num = construction.vertex_num
        /\ DOMAIN vertices = Vertex
        /\ active_timestamp = 0
        /\ \A i \in Vertex : vertices[i].timestamp = 0
        /\ \A i \in Vertex : DOMAIN vertices[i].edges \subseteq Vertex
        /\ \A i, j \in Vertex :
               LET joining == Joining(construction.weighted_edges, i, j)
               IN  /\ (j \in DOMAIN vertices[i].edges) <=> (joining # {})
                   /\ (i \in DOMAIN vertices[j].edges) <=> (joining # {})
                   /\ joining # {} =>
                          LET weight == construction.weighted_edges[Max(joining)][3]
                          IN  /\ vertices[i].edges[j] = weight
                              /\ vertices[j].edges[i] = weight

\* C12 witness: an engine built from a list that joins one pair of distinct
\* vertices twice, in opposite orientations and with different weights
C12_Witness ==
    /\ FreshEngine
    /\ \E k1, k2 \in 1..Len(construction.weighted_edges) :
           LET e1 == construction.weighted_edges[k1]
               e2 == construction.weighted_edges[k2]
           IN  /\ k1 < k2
               /\ e1[1] # e1[2]
               /\ e2[1] = e1[2]
               /\ e2[2] = e1[1]
               /\ e2[3] # e1[3]
               /\ vertices[e1[1]].edges[e1[2]] = e2[3]

\* the worker threads that run the closure on an item
Busy == {w \in Workers : workers[w].state # "idle"}

\* C13: in a parallel batch of ExampleCodeParallel::generate_random_errors
\* each replica index is handled by exactly one worker, so no two workers
\* hold or wait for the write lock of the same replica at the same time, and
\* for every interleaving syndrome_patterns[i] is the pattern generated by
\* replica i with seed + i * 1_000_000_000; the following calls return
\* syndrome_patterns[0], [1], ... in index order, code_index advancing by one
\* modulo the replica count.
C13_BatchIndexStable ==
    /\ [](par_pc = "batch" =>
             /\ \A i \in DOMAIN batch :
                    /\ Len(batch[i].handlers) <= 1
                    /\ batch[i].done => Len(batch[i].handlers) = 1
                    /\ Cardinality({w \in Busy : workers[w].code_index = i}) <= 1
                    /\ \A w \in Busy : workers[w].code_index = i
                                          => batch[i].handlers = <<w>> /\ ~batch[i].done
             /\ \A i \in DOMAIN codes :
                    codes[i].lock # 0 =>
                        /\ workers[codes[i].lock].state \in {"holding", "generated"}
                        /\ workers[codes[i].lock].code_index = i)
    /\ []((par_pc = "idle" /\ par_ret.called) =>
             /\ Busy = {}
             /\ \A i \in DOMAIN codes : codes[i].lock = 0
             /\ DOMAIN syndrome_patterns = DOMAIN codes
             /\ \A i \in DOMAIN codes :
                    /\ syndrome_patterns[i] = [replica |-> i, seed |-> par_seed + i * SeedStride]
                    /\ codes[i].generated = syndrome_patterns[i]
             /\ par_ret.pattern = syndrome_patterns[par_ret.code_index]
             /\ code_index = (par_ret.code_index + 1) % Cardinality(DOMAIN codes))
    /\ [][(par_pc' = "idle" /\ (par_pc = "batch" \/ par_ret' # par_ret)) =>
             /\ par_ret'.code_index = code_index
             /\ par_ret'.pattern = syndrome_patterns'[code_index]
             /\ code_index' = (code_index + 1) % Cardinality(DOMAIN codes)]_vars

\* C13 witness: the call after a batch over two replicas, each handled by a
\* different worker, has returned syndrome_patterns[1], generated with the
\* seed 1 + 1_000_000_000
C13_Witness ==
    /\ par_pc = "idle"
    /\ par_ret.called
    /\ par_ret.code_index = 1
    /\ par_seed = 1
    /\ par_ret.pattern = [replica |-> 1, seed |-> 1000000001]
    /\ batch[0].handlers # batch[1].handlers
    /\ code_index = 0

\* the code distance is one create_code accepts
OddDistance == code_args.d >= 3 /\ code_args.d % 2 = 1

\* the unordered pair of vertices of the idx-th edge of the code built
UnorderedPair(idx) == {code.edges[idx][1], code.edges[idx][2]}

\* C14: for every odd d >= 3 (and every noisy_measurements >= 0 where it
\* applies) the graph built by create_code of each of the four code types
\* passes sanity_check: the vertex and edge lists are non-empty, no two edges
\* join the same unordered vertex pair, every vertex has at least one
\* neighbor edge, and no vertex lists the same edge index twice.
C14_CreatedCodesPass ==
    /\ code_pc \in {"created", "checked", "failed"} => (code_pc = "failed" <=> ~OddDistance)
    /\ code_pc = "checked" => code_check = "Ok"
    /\ code_pc \in {"created", "checked"} =>
           /\ DOMAIN code.vertices # {}
           /\ Len(code.edges) > 0
           /\ \A i, j \in 1..Len(code.edges) :
                  i # j => UnorderedPair(i) # UnorderedPair(j)
           /\ \A v \in DOMAIN code.vertices :
                  /\ Len(code.vertices[v].neighbor_edges) >= 1
                  /\ NoRepeat(code.vertices[v].neighbor_edges)
                  /\ \A k \in 1..Len(code.vertices[v].neighbor_edges) :
                         v \in UnorderedPair(code.vertices[v].neighbor_edges[k] + 1)

\* C14 witness: sanity_check has passed the circuit-level code of distance 5
\* with two noisy measurement rounds, which has diagonal edges
C14_Witness ==
    /\ code_pc = "checked"
    /\ code_check = "Ok"
    /\ code_args = [kind |-> "CircuitLevelPlanarCode", d |-> 5, noisy_measurements |-> 2]
    /\ \E idx \in 1..Len(code.edges) : code.edges[idx] = <<0, 37>>

\* every entry of the map m is an entry of the map n, unchanged
Kept(m, n) == \A k \in DOMAIN m : k \in DOMAIN n /\ n[k] = m[k]

\* C15: within one traversal no vertex is popped from the frontier twice: the
\* assertion that the popped target has no Result Map entry yet holds at every
\* pop, a vertex stamped with the current timestamp is never in the frontier
\* again, and a Result Map entry is never overwritten or changed after it is
\* inserted.
C15_PoppedOnce ==
    /\ [](/\ NoRepeat(popped)
          /\ (pc = "idle" => ret.status # "assertion_failed")
          /\ pc = "loop" =>
                 /\ \A k \in DOMAIN pq \cap Vertex :
                        vertices[k].timestamp # active_timestamp
                 /\ DOMAIN pq \cap DOMAIN computed_edges = {}
                 /\ \A k \in DOMAIN computed_edges : k \in Vertex /\ k # vertex
                 /\ \A i \in 1..Len(popped) : popped[i] \notin DOMAIN pq)
    /\ [][pc = "loop" =>
             /\ pc' \in {"loop", "walk"} => Kept(computed_edges, computed_edges')
             /\ (pc' = "idle" /\ ret'.status = "ok") => Kept(computed_edges, ret'.map)]_vars

\* C15 witness: a traversal on a graph where every vertex has at least two
\* neighbors has popped two vertices, recorded one, and its frontier is not
\* empty
C15_Witness ==
    /\ pc = "loop"
    /\ Len(popped) >= 2
    /\ DOMAIN computed_edges # {}
    /\ DOMAIN pq # {}
    /\ \A v \in Vertex : Cardinality(DOMAIN vertices[v].edges \ {v}) >= 2

\* the vertices popped by the traversal in progress
Popped == {popped[i] : i \in 1..Len(popped)}

\* C16: in every reachable state every vertex's stored timestamp is
\* <= active_timestamp; right after invalidate_previous_dijkstra returned t no
\* vertex has stored timestamp t; and during the traversal a vertex's stored
\* timestamp equals t if and only if the vertex was popped in this traversal.
C16_TimestampMarksPopped ==
    /\ \A v \in Vertex : vertices[v].timestamp <= active_timestamp
    /\ (pc = "loop" /\ popped = <<>>) =>
           \A v \in Vertex : vertices[v].timestamp # active_timestamp
    /\ pc = "loop" =>
           \A v \in Vertex : (vertices[v].timestamp = active_timestamp) <=> (v \in Popped)

\* C16 witness: a traversal that began with a clock wrap has popped two
\* vertices and not yet a third
C16_Witness ==
    /\ pc = "loop"
    /\ wrapped
    /\ Len(popped) >= 2
    /\ Vertex \ Popped # {}

\* C17: each vertex's stored timestamp is monotonic non-decreasing: no
\* operation ever changes a vertex's stored timestamp to a smaller value.
C17_TimestampMonotonic ==
    [][\A v \in DOMAIN vertices : vertices'[v].timestamp >= vertices[v].timestamp]_vars

\* C17 as the code has it: a stored timestamp becomes smaller only in the
\* invalidation of a call that finds the clock at its maximum, which sets
\* every stored timestamp to 0 and the clock to 1; every other step leaves
\* each stored timestamp as it is or makes it greater.
C17_MonotonicUntilWrap ==
    [][\/ \A v \in DOMAIN vertices : vertices'[v].timestamp >= vertices[v].timestamp
       \/ /\ pc = "idle"
          /\ pc' = "loop"
          /\ active_timestamp = FastClearTimestampMAX
          /\ active_timestamp' = 1
          /\ \A v \in DOMAIN vertices : vertices'[v].timestamp = 0]_vars

\* C17 witness: a call has just reset the clock, right after a full run from
\* the same source that stamped at least two vertices
C17_Witness ==
    /\ pc = "loop"
    /\ popped = <<>>
    /\ wrapped
    /\ prev_full.valid
    /\ DOMAIN prev_full.map # {}
    /\ \A v \in Vertex : vertices[v].timestamp = 0

\* C18: every query, whether it returns or fails, leaves vertex_num and every
\* vertex's neighbor-to-weight mapping unchanged; the only engine state a
\* query changes is active_timestamp and the stored timestamps.
C18_AdjacencyUnchanged ==
    [][/\ vertex_num' = vertex_num
       /\ DOMAIN vertices' = DOMAIN vertices
       /\ \A v \in DOMAIN vertices : vertices'[v].edges = vertices[v].edges]_vars

\* C18 witness: a get_path that crossed a clock wrap has failed on an engine
\* that stores an edge
C18_Witness ==
    /\ CallDone("get_path")
    /\ ret.status = "missing_key"
    /\ wrapped
    /\ \E v \in Vertex : DOMAIN vertices[v].edges # {}

\* following the predecessors of the map m from v reaches s within n steps
RECURSIVE ReachesSource(_, _, _, _)
ReachesSource(m, s, v, n) ==
    IF v = s THEN TRUE
    ELSE IF n = 0 \/ v \notin DOMAIN m THEN FALSE
    ELSE ReachesSource(m, s, m[v][1], n - 1)

\* the map m from the source s is a tree of stored edges rooted at s: each
\* predecessor is s or a key, is adjacent to its key, weights add up along
\* it, and each key's predecessors lead to s within as many steps as m has
\* keys, so without a repeat
PredecessorTree(m, s) ==
    \A v \in DOMAIN m :
        LET p == m[v][1]
            w == m[v][2]
        IN  /\ v \in Vertex
            /\ p = s \/ p \in DOMAIN m
            /\ Adjacent(p, v)
            /\ w = (IF p = s THEN 0 ELSE m[p][2]) + vertices[p].edges[v]
            /\ ReachesSource(m, s, v, Cardinality(DOMAIN m))

\* C19: in every Result Map returned by all_edges or all_edges_with_terminate
\* from s, each entry v -> (p, w) has p equal to s or a key of the map, p a
\* skeleton neighbor of v, and w the weight recorded for p (0 for s) plus the
\* stored weight of the edge between p and v; following predecessors from any
\* key reaches s without visiting a vertex twice, zero-weight cycles
\* included, so the backward walk of get_path always ends.
C19_PredecessorTree ==
    /\ (/\ pc = "idle"
        /\ ret.op \in {"all_edges", "all_edges_with_terminate"}
        /\ ret.status = "ok")
           => PredecessorTree(ret.map, ret.a)
    /\ pc = "walk" =>
           /\ PredecessorTree(computed_edges, vertex)
           /\ Len(path) < vertex_num
           /\ NoRepeat([i \in 1..Len(path) |-> path[i][1]])
           /\ walk_vertex = vertex \/ walk_vertex = terminate
                  \/ walk_vertex \in DOMAIN computed_edges

\* C19 witness: on the zero-weight 4-cycle a Result Map was returned in which
\* a vertex at weight 0 has a predecessor other than the source
C19_Witness ==
    /\ pc = "idle"
    /\ ret.op \in {"all_edges", "all_edges_with_terminate"}
    /\ ret.status = "ok"
    /\ BuiltFrom(5, ZeroCycleEdges)
    /\ \E v \in DOMAIN ret.map : ret.map[v][1] # ret.a /\ ret.map[v][2] = 0

\* C20: all_edges_with_terminate(s, t) with t in range stops when t is
\* popped: while the loop runs t has not been popped, so no neighbor of t is
\* relaxed and no vertex is popped after t; also for t = s, where the
\* traversal stops at the first pop and the returned Result Map is empty.
C20_StopsAtTerminate ==
    /\ (/\ pc = "loop"
        /\ op = "all_edges_with_terminate"
        /\ terminate \in Vertex)
           => terminate \notin Popped
    /\ (/\ CallDone("all_edges_with_terminate")
        /\ ret.status = "ok"
        /\ ret.a \in Vertex
        /\ ret.b = ret.a)
           => (ret.map = EmptyMap /\ ret.iterations = 1)

\* C21: on an ErrorPatternReader holding N syndrome patterns, the k-th call
\* of generate_random_errors (k = 1..N) returns the k-th pattern of the file
\* whatever the seed and advances syndrome_index by exactly one; every later
\* call fails and leaves syndrome_index and the stored patterns unchanged.
C21_ReaderInFileOrder ==
    [][reader_calls' = reader_calls + 1 =>
          IF reader_calls < Len(reader_file)
          THEN /\ reader_ret'.status = "ok"
               /\ reader_ret'.pattern = reader_file[reader_calls + 1]
               /\ reader'.syndrome_index = reader.syndrome_index + 1
               /\ reader'.syndrome_index = reader_calls + 1
               /\ reader'.syndrome_patterns = reader_file
          ELSE /\ reader_ret'.status = "failed"
               /\ reader'.syndrome_index = Len(reader_file)
               /\ reader' = reader
               /\ reader.syndrome_patterns = reader_file]_vars

\* C21 witness: a file of two different patterns read to its end, and the
\* call after that, made with seed 1, has failed
C21_Witness ==
    /\ Len(reader_file) = 2
    /\ reader_file[1] # reader_file[2]
    /\ reader_calls = 3
    /\ reader_ret.status = "failed"
    /\ reader_ret.seed = 1
    /\ reader.syndrome_index = 2

\* a SyndromePattern that lists a virtual vertex of the code
ListsVirtual(pattern) ==
    \E k \in 1..Len(pattern.syndrome_vertices) :
        code.vertices[pattern.syndrome_vertices[k]].is_virtual

\* C22: virtual vertices never have syndrome: after any sequence of
\* generate_random_errors, set_syndrome_vertices and set_syndrome calls on a
\* built code no vertex has both is_virtual and is_syndrome, and no
\* SyndromePattern returned by generate_random_errors or get_syndrome lists a
\* virtual vertex.
C22_VirtualNeverSyndrome ==
    /\ \A v \in DOMAIN code.vertices :
           ~(code.vertices[v].is_virtual /\ code.vertices[v].is_syndrome)
    /\ syndrome_ret.op \in {"generate_random_errors", "get_syndrome"}
           => ~ListsVirtual(syndrome_ret.pattern)

====
